---- MODULE Spec2Model ----
(***************************************************************************)
(* Notes API: the PostgreSQL note repository (NoteRepoPG) and the HTTP     *)
(* handlers that call it.  The committed contents of the tables notes and  *)
(* notes_log are the state; every repository method and handler is an      *)
(* action; the SQL of each statement is an operator over the table.        *)
(***************************************************************************)
EXTENDS Integers, Sequences, FiniteSets, TLC

VARIABLES
    notes,      \* committed rows of table notes
    notes_log,  \* committed rows of table notes_log
    seq,        \* last value handed out by the id sequence of notes
    dbNow,      \* the database server's clock (now())
    appNow,     \* the application's clock (time.Now())
    tx,         \* per worker: the CreateWithLogTx call in progress
    resp,       \* the last completed call: what was asked and what came back
    walk        \* the paging reader: cursor, pages received so far

vars == <<notes, notes_log, seq, dbNow, appNow, tx, resp, walk>>

----------------------------------------------------------------------------
(* Bounds of the model. *)

MaxId == 2
MaxTime == 1
NumTx == 2
MaxListId == 3
MaxLimit == 2
MaxIdsLen == 2

Ids == 1..MaxId
Workers == 1..NumTx
ListIds == 1..MaxListId
Limits == 0..MaxLimit

----------------------------------------------------------------------------
(* Text: a Go string is a sequence of characters. *)

Space == " "
Tab == "\t"

IsSpace(c) == c \in {Space, Tab}

RECURSIVE TrimLeft(_)
TrimLeft(s) ==
    IF s # <<>> /\ IsSpace(Head(s)) THEN TrimLeft(Tail(s)) ELSE s

RECURSIVE TrimRight(_)
TrimRight(s) ==
    IF s # <<>> /\ IsSpace(s[Len(s)]) THEN TrimRight(SubSeq(s, 1, Len(s) - 1)) ELSE s

TrimSpace(s) == TrimRight(TrimLeft(s))

(* A *string field of core.NoteUpdate: nil, or a pointer to a value. *)
Nil == [present |-> FALSE, val |-> <<>>]
Ptr(s) == [present |-> TRUE, val |-> s]

(* COALESCE($n, column) *)
Coalesce(p, old) == IF p.present THEN p.val ELSE old

----------------------------------------------------------------------------
(* The tables. *)

NoteIds(rows) == {r.id : r \in rows}

(* Column defaults of notes on INSERT (id, created_at, updated_at). *)
NextVal == seq + 1

DefaultNow(stmtTime) == stmtTime

NewRow(id, n, t) ==
    [id |-> id, title |-> n.title, content |-> n.content,
     created_at |-> DefaultNow(t), updated_at |-> DefaultNow(t)]

LogRow(id, t) == [note_id |-> id, action |-> "created", created_at |-> t]

(* SQL row comparison (a1, a2) < (b1, b2). *)
RowLess(a, b) == a[1] < b[1] \/ (a[1] = b[1] /\ a[2] < b[2])

(* ORDER BY created_at DESC, id DESC: whether row a sorts before row b. *)
SortsBefore(a, b) ==
    \/ a.created_at > b.created_at
    \/ (a.created_at = b.created_at /\ a.id > b.id)

RECURSIVE OrderByCreatedAtDescIdDesc(_)
OrderByCreatedAtDescIdDesc(rows) ==
    IF rows = {} THEN <<>>
    ELSE LET top == CHOOSE r \in rows : \A o \in rows : o = r \/ SortsBefore(r, o)
         IN  <<top>> \o OrderByCreatedAtDescIdDesc(rows \ {top})

(* LIMIT n *)
Limit(rowSeq, n) == SubSeq(rowSeq, 1, IF n < Len(rowSeq) THEN n ELSE Len(rowSeq))

----------------------------------------------------------------------------
(* Reads of NoteRepoPG, as functions of the committed table. *)

NotFound == [id |-> 0]

GetByID(id) ==
    IF \E r \in notes : r.id = id
    THEN CHOOSE r \in notes : r.id = id
    ELSE NotFound

GetAll == OrderByCreatedAtDescIdDesc(notes)

Reverse(rowSeq) == [i \in DOMAIN rowSeq |-> rowSeq[Len(rowSeq) + 1 - i]]

(* The first page with the ORDER BY ascending. *)
ListFirstPageAscending(limit) ==
    Limit(Reverse(OrderByCreatedAtDescIdDesc(notes)), limit)

ListFirstPage(limit) == Limit(OrderByCreatedAtDescIdDesc(notes), limit)

(* The cursor condition on created_at alone. *)
AfterCursorWhereCreatedAtOnly(cursor) ==
    {r \in notes : r.created_at < cursor.created_at}

(* The cursor condition as two independent filters. *)
AfterCursorWhereTwoFilters(cursor) ==
    {r \in notes : r.created_at < cursor.created_at /\ r.id < cursor.id}

(* WHERE (created_at, id) < ($1, $2) *)
AfterCursorWhere(cursor) ==
    {r \in notes : RowLess(<<r.created_at, r.id>>, <<cursor.created_at, cursor.id>>)}

ListAfterCursor(cursor, limit) ==
    Limit(OrderByCreatedAtDescIdDesc(AfterCursorWhere(cursor)), limit)

CursorOf(r) == [created_at |-> r.created_at, id |-> r.id]

----------------------------------------------------------------------------
(* Writes of NoteRepoPG.  dbOk is whether the database call goes through    *)
(* (a lost connection or a cancelled context makes it fail).                *)

IdleTx == [pc |-> "idle", start |-> 0, noteID |-> 0, note |-> {}, log |-> {}]

Init ==
    /\ notes = {}
    /\ notes_log = {}
    /\ seq = 0
    /\ dbNow = 0
    /\ appNow = 0
    /\ tx = [w \in Workers |-> IdleTx]
    /\ resp = [op |-> "none"]
    /\ walk = [pc |-> "idle"]

TickDb ==
    /\ dbNow < MaxTime
    /\ dbNow' = dbNow + 1
    /\ UNCHANGED <<notes, notes_log, seq, appNow, tx, resp, walk>>

TickApp ==
    /\ appNow < MaxTime
    /\ appNow' = appNow + 1
    /\ UNCHANGED <<notes, notes_log, seq, dbNow, tx, resp, walk>>

(* stmtTime is the database clock when the INSERT statement began, which  *)
(* is what now() gives; the row is written, and the id drawn, when the      *)
(* action is taken.                                                         *)
Create(n, stmtTime, dbOk) ==
    /\ IF dbOk
       THEN /\ notes' = notes \cup {NewRow(NextVal, n, stmtTime)}
            /\ seq' = NextVal
            /\ resp' = [op |-> "Create", id |-> NextVal, err |-> FALSE]
       ELSE /\ UNCHANGED <<notes, seq>>
            /\ resp' = [op |-> "Create", id |-> 0, err |-> TRUE]
    /\ UNCHANGED <<notes_log, dbNow, appNow, tx, walk>>

(* A SET clause without COALESCE: an absent field is written as empty. *)
UpdateSetNoCoalesce(r, u, now) ==
    [r EXCEPT !.title = u.title.val,
              !.content = u.content.val,
              !.updated_at = now]

UpdateSet(r, u, now) ==
    [r EXCEPT !.title = Coalesce(u.title, r.title),
              !.content = Coalesce(u.content, r.content),
              !.updated_at = now]

UpdateRows(id, u, now) ==
    {IF r.id = id THEN UpdateSet(r, u, now) ELSE r : r \in notes}

Update(id, u, dbOk) ==
    /\ IF dbOk
       THEN /\ notes' = UpdateRows(id, u, appNow)
            /\ resp' = [op |-> "Update", id |-> id, err |-> FALSE]
       ELSE /\ UNCHANGED notes
            /\ resp' = [op |-> "Update", id |-> id, err |-> TRUE]
    /\ UNCHANGED <<notes_log, seq, dbNow, appNow, tx, walk>>

RowOf(rows, id) == CHOOSE r \in rows : r.id = id

DeleteRows(id) == {r \in notes : r.id # id}

(* A Delete that reports zero affected rows as an error. *)
DeleteRowsAffectedChecked(id, dbOk) ==
    /\ IF dbOk
       THEN /\ notes' = DeleteRows(id)
            /\ resp' = [op |-> "Delete", id |-> id, err |-> id \notin NoteIds(notes)]
       ELSE /\ UNCHANGED notes
            /\ resp' = [op |-> "Delete", id |-> id, err |-> TRUE]
    /\ UNCHANGED <<notes_log, seq, dbNow, appNow, tx, walk>>

Delete(id, dbOk) ==
    /\ IF dbOk
       THEN /\ notes' = DeleteRows(id)
            /\ resp' = [op |-> "Delete", id |-> id, err |-> FALSE]
       ELSE /\ UNCHANGED notes
            /\ resp' = [op |-> "Delete", id |-> id, err |-> TRUE]
    /\ UNCHANGED <<notes_log, seq, dbNow, appNow, tx, walk>>

----------------------------------------------------------------------------
(* CreateWithLogTx, one action per statement of the call made by worker t.  *)
(* Rows written inside the transaction are held in tx[t] and reach the      *)
(* tables at Commit; ok is whether the statement goes through.              *)

(* defer tx.Rollback(): the exit without Commit discards what was written. *)
Rollback(t) == [tx[t] EXCEPT !.pc = "failed", !.note = {}, !.log = {}]

TxBegin(t, ok) ==
    /\ tx[t].pc = "idle"
    /\ tx' = [tx EXCEPT ![t] =
                IF ok THEN [IdleTx EXCEPT !.pc = "begun", !.start = dbNow]
                      ELSE [IdleTx EXCEPT !.pc = "failed"]]
    /\ UNCHANGED <<notes, notes_log, seq, dbNow, appNow, resp, walk>>

(* The note INSERT issued on the pool instead of the transaction: it is    *)
(* committed on its own, at once.                                          *)
TxInsertNoteOnPool(t, n, ok) ==
    /\ tx[t].pc = "begun"
    /\ IF ok
       THEN /\ tx' = [tx EXCEPT ![t].pc = "noteInserted", ![t].noteID = NextVal]
            /\ notes' = notes \cup {NewRow(NextVal, n, dbNow)}
            /\ seq' = NextVal
       ELSE /\ tx' = [tx EXCEPT ![t] = Rollback(t)]
            /\ UNCHANGED <<notes, seq>>
    /\ UNCHANGED <<notes_log, dbNow, appNow, resp, walk>>

TxInsertNote(t, n, ok) ==
    /\ tx[t].pc = "begun"
    /\ IF ok
       THEN /\ tx' = [tx EXCEPT ![t].pc = "noteInserted",
                                ![t].noteID = NextVal,
                                ![t].note = {NewRow(NextVal, n, tx[t].start)}]
            /\ seq' = NextVal
       ELSE /\ tx' = [tx EXCEPT ![t] = Rollback(t)]
            /\ UNCHANGED seq
    /\ UNCHANGED <<notes, notes_log, dbNow, appNow, resp, walk>>

(* The log INSERT with its error dropped: the call goes on to Commit. *)
TxInsertLogErrIgnored(t, ok) ==
    /\ tx[t].pc = "noteInserted"
    /\ tx' = [tx EXCEPT ![t].pc = "logInserted",
                        ![t].log = IF ok THEN {LogRow(tx[t].noteID, appNow)} ELSE {}]
    /\ UNCHANGED <<notes, notes_log, seq, dbNow, appNow, resp, walk>>

TxInsertLog(t, ok) ==
    /\ tx[t].pc = "noteInserted"
    /\ tx' = [tx EXCEPT ![t] =
                IF ok THEN [tx[t] EXCEPT !.pc = "logInserted",
                                         !.log = {LogRow(tx[t].noteID, appNow)}]
                      ELSE Rollback(t)]
    /\ UNCHANGED <<notes, notes_log, seq, dbNow, appNow, resp, walk>>

TxCommit(t, ok) ==
    /\ tx[t].pc = "logInserted"
    /\ IF ok
       THEN /\ notes' = notes \cup tx[t].note
            /\ notes_log' = notes_log \cup tx[t].log
            /\ tx' = [tx EXCEPT ![t].pc = "committed", ![t].note = {}, ![t].log = {}]
       ELSE /\ tx' = [tx EXCEPT ![t] = Rollback(t)]
            /\ UNCHANGED <<notes, notes_log>>
    /\ UNCHANGED <<seq, dbNow, appNow, resp, walk>>

TxReturn(t) ==
    /\ tx[t].pc \in {"committed", "failed"}
    /\ resp' = [op |-> "CreateWithLogTx",
                id |-> IF tx[t].pc = "committed" THEN tx[t].noteID ELSE 0,
                err |-> tx[t].pc = "failed"]
    /\ tx' = [tx EXCEPT ![t] = IdleTx]
    /\ UNCHANGED <<notes, notes_log, seq, dbNow, appNow, walk>>

(* A reader: one statement over both tables sees what is committed. *)
ReadBoth ==
    /\ resp' = [op |-> "Read",
                noteIds |-> NoteIds(notes),
                logIds |-> {l.note_id : l \in notes_log}]
    /\ UNCHANGED <<notes, notes_log, seq, dbNow, appNow, tx, walk>>

----------------------------------------------------------------------------
(* The read methods as calls: resp records the arguments and the result.   *)

ListFirstPageCall(limit) ==
    /\ resp' = [op |-> "ListFirstPage", limit |-> limit, rows |-> ListFirstPage(limit)]
    /\ UNCHANGED <<notes, notes_log, seq, dbNow, appNow, tx, walk>>

(* The next page after the one just received: the cursor is its last row. *)
ListAfterCursorCall(limit) ==
    /\ resp.op = "ListFirstPage"
    /\ resp.rows # <<>>
    /\ LET cursor == CursorOf(resp.rows[Len(resp.rows)])
       IN  resp' = [op |-> "ListAfterCursor", n |-> resp.limit, first |-> resp.rows,
                    cursor |-> cursor, limit |-> limit,
                    rows |-> ListAfterCursor(cursor, limit)]
    /\ UNCHANGED <<notes, notes_log, seq, dbNow, appNow, tx, walk>>

GetAllCall ==
    /\ resp' = [op |-> "GetAll", rows |-> GetAll]
    /\ UNCHANGED <<notes, notes_log, seq, dbNow, appNow, tx, walk>>

Range(f) == {f[i] : i \in DOMAIN f}

NoteShort(r) == [id |-> r.id, title |-> r.title]

(* WHERE id = ANY($1) *)
AnyOf(ids) == {r \in notes : r.id \in Range(ids)}

(* The orders in which a SELECT without ORDER BY may return a set of rows. *)
Orders(rows) ==
    {o \in [1..Cardinality(rows) -> rows] :
        \A i, j \in 1..Cardinality(rows) : i # j => o[i] # o[j]}

(* GetByIDs without the early return for an empty list. *)
GetByIDsAlwaysQueries(ids, dbOk) ==
    /\ IF dbOk
       THEN \E o \in Orders(AnyOf(ids)) :
               resp' = [op |-> "GetByIDs", ids |-> ids, err |-> FALSE, queried |-> TRUE,
                        rows |-> [i \in DOMAIN o |-> NoteShort(o[i])]]
       ELSE resp' = [op |-> "GetByIDs", ids |-> ids, err |-> TRUE, queried |-> TRUE,
                     rows |-> <<>>]
    /\ UNCHANGED <<notes, notes_log, seq, dbNow, appNow, tx, walk>>

GetByIDs(ids, dbOk) ==
    /\ IF Len(ids) = 0
       THEN resp' = [op |-> "GetByIDs", ids |-> ids, err |-> FALSE, queried |-> FALSE,
                     rows |-> <<>>]
       ELSE IF dbOk
       THEN \E o \in Orders(AnyOf(ids)) :
               resp' = [op |-> "GetByIDs", ids |-> ids, err |-> FALSE, queried |-> TRUE,
                        rows |-> [i \in DOMAIN o |-> NoteShort(o[i])]]
       ELSE resp' = [op |-> "GetByIDs", ids |-> ids, err |-> TRUE, queried |-> TRUE,
                     rows |-> <<>>]
    /\ UNCHANGED <<notes, notes_log, seq, dbNow, appNow, tx, walk>>

----------------------------------------------------------------------------
(* The HTTP handlers.  fault is what goes wrong while the request is       *)
(* served: "id" or "json" (that part of the request does not parse), "db1" *)
(* or "db2" (the handler's first or second repository call returns an      *)
(* error), or "none".  resp is the status written, with the title the      *)
(* request carried.                                                        *)

Respond(op, status, title) == [op |-> op, status |-> status, title |-> title]

(* CreateNote testing the title without trimming it. *)
CreateNoteUntrimmed(req, fault) ==
    /\ IF fault = "json"
       THEN resp' = Respond("CreateNote", 400, Nil) /\ UNCHANGED <<notes, seq>>
       ELSE IF req.title = <<>>
       THEN resp' = Respond("CreateNote", 400, Ptr(req.title)) /\ UNCHANGED <<notes, seq>>
       ELSE IF fault = "db1"
       THEN resp' = Respond("CreateNote", 500, Ptr(req.title)) /\ UNCHANGED <<notes, seq>>
       ELSE /\ notes' = notes \cup {NewRow(NextVal, req, dbNow)}
            /\ seq' = NextVal
            /\ resp' = Respond("CreateNote", IF fault = "db2" THEN 500 ELSE 201,
                               Ptr(req.title))
    /\ UNCHANGED <<notes_log, dbNow, appNow, tx, walk>>

CreateNote(req, fault) ==
    /\ IF fault = "json"
       THEN resp' = Respond("CreateNote", 400, Nil) /\ UNCHANGED <<notes, seq>>
       ELSE IF TrimSpace(req.title) = <<>>
       THEN resp' = Respond("CreateNote", 400, Ptr(req.title)) /\ UNCHANGED <<notes, seq>>
       ELSE IF fault = "db1"
       THEN resp' = Respond("CreateNote", 500, Ptr(req.title)) /\ UNCHANGED <<notes, seq>>
       ELSE /\ notes' = notes \cup {NewRow(NextVal, req, dbNow)}
            /\ seq' = NextVal
            /\ resp' = Respond("CreateNote", IF fault = "db2" THEN 500 ELSE 201,
                               Ptr(req.title))
    /\ UNCHANGED <<notes_log, dbNow, appNow, tx, walk>>

PatchNote(id, update, fault) ==
    /\ IF fault \in {"id", "json"}
       THEN resp' = Respond("PatchNote", 400, Nil) /\ UNCHANGED notes
       ELSE IF ~update.title.present /\ ~update.content.present
       THEN resp' = Respond("PatchNote", 400, update.title) /\ UNCHANGED notes
       ELSE IF update.title.present /\ TrimSpace(update.title.val) = <<>>
       THEN resp' = Respond("PatchNote", 400, update.title) /\ UNCHANGED notes
       ELSE IF fault = "db1"
       THEN resp' = Respond("PatchNote", 500, update.title) /\ UNCHANGED notes
       ELSE /\ notes' = UpdateRows(id, update, appNow)
            /\ resp' = Respond("PatchNote",
                               IF fault = "db2" \/ id \notin NoteIds(notes)
                               THEN 500 ELSE 200,
                               update.title)
    /\ UNCHANGED <<notes_log, seq, dbNow, appNow, tx, walk>>

DeleteNote(id, fault) ==
    /\ IF fault = "id"
       THEN resp' = Respond("DeleteNote", 400, Nil) /\ UNCHANGED notes
       ELSE IF fault = "db1"
       THEN resp' = Respond("DeleteNote", 500, Nil) /\ UNCHANGED notes
       ELSE notes' = DeleteRows(id) /\ resp' = Respond("DeleteNote", 204, Nil)
    /\ UNCHANGED <<notes_log, seq, dbNow, appNow, tx, walk>>

----------------------------------------------------------------------------
(* A reader paging through the list: ListFirstPage, then ListAfterCursor   *)
(* from the last row received, until a page comes back empty.  seen is the *)
(* ids received, in order; initial the ids stored at the first fetch;      *)
(* alive those of them still stored at the last fetch.                     *)

PageIds(rows) == [i \in DOMAIN rows |-> rows[i].id]

WalkStart(limit) ==
    /\ walk.pc = "idle"
    /\ LET page == ListFirstPage(limit)
       IN  walk' = [pc |-> IF page = <<>> THEN "done" ELSE "paging",
                    limit |-> limit,
                    cursor |-> IF page = <<>> THEN [created_at |-> 0, id |-> 0]
                               ELSE CursorOf(page[Len(page)]),
                    seen |-> PageIds(page),
                    initial |-> NoteIds(notes),
                    alive |-> NoteIds(notes)]
    /\ UNCHANGED <<notes, notes_log, seq, dbNow, appNow, tx, resp>>

WalkNext ==
    /\ walk.pc = "paging"
    /\ LET page == ListAfterCursor(walk.cursor, walk.limit)
       IN  walk' = [walk EXCEPT
                      !.pc = IF page = <<>> THEN "done" ELSE "paging",
                      !.cursor = IF page = <<>> THEN @ ELSE CursorOf(page[Len(page)]),
                      !.seen = @ \o PageIds(page),
                      !.alive = walk.initial \cap NoteIds(notes)]
    /\ UNCHANGED <<notes, notes_log, seq, dbNow, appNow, tx, resp>>

----------------------------------------------------------------------------
(* Inputs. *)

TextA == <<"a">>
TextB == <<"b">>

RepoCreates == {[title |-> TextA, content |-> <<"x">>]}

RepoUpdates ==
    {[title |-> t, content |-> c] :
        t \in {Nil, Ptr(TextB)}, c \in {Nil, Ptr(<<>>)}}

Next ==
    \/ TickApp
    \/ \E n \in RepoCreates, ok \in BOOLEAN : seq < MaxId /\ Create(n, dbNow, ok)
    \/ \E id \in Ids, u \in RepoUpdates, ok \in BOOLEAN : Update(id, u, ok)
    \/ \E id \in Ids, ok \in BOOLEAN : Delete(id, ok)

Spec == Init /\ [][Next]_vars

----------------------------------------------------------------------------
(* C5: Update(id, u) on an existing note sets title and content to the     *)
(* values that are present in u and keeps the ones that are absent, sets   *)
(* updated_at to the application's current time, and leaves the note's id  *)
(* and created_at, every other note and notes_log unchanged.               *)
UpdateIsPartial ==
    [][\A id \in Ids, u \in RepoUpdates :
        (Update(id, u, TRUE) /\ id \in NoteIds(notes)) =>
            LET old == RowOf(notes, id)
            IN  /\ ~resp'.err
                /\ id \in NoteIds(notes')
                /\ LET new == RowOf(notes', id)
                   IN  /\ new.title = (IF u.title.present THEN u.title.val ELSE old.title)
                       /\ new.content = (IF u.content.present THEN u.content.val ELSE old.content)
                       /\ new.updated_at = appNow
                       /\ new.id = old.id
                       /\ new.created_at = old.created_at
                /\ notes' \ {RowOf(notes', id)} = notes \ {old}
                /\ notes_log' = notes_log]_vars

(* An Update with title absent and content present-but-empty has acted:    *)
(* the title is still the created one, the content is empty, and           *)
(* updated_at has moved away from created_at.                              *)
UpdateIsPartialWitness ==
    /\ resp.op = "Update"
    /\ ~resp.err
    /\ \E r \in notes :
        /\ r.id = resp.id
        /\ r.title = TextA
        /\ r.content = <<>>
        /\ r.updated_at # r.created_at
    /\ Cardinality(notes) = 2

----------------------------------------------------------------------------
(* The repository's writes, CreateWithLogTx included, with the database's  *)
(* clock and the application's clock each running on its own.              *)

NextClocks ==
    \/ Next
    \/ TickDb
    \/ \E ok \in BOOLEAN : TxBegin(1, ok)
    \/ \E n \in RepoCreates, ok \in BOOLEAN : seq < MaxId /\ TxInsertNote(1, n, ok)
    \/ \E ok \in BOOLEAN : TxInsertLog(1, ok)
    \/ \E ok \in BOOLEAN : TxCommit(1, ok)
    \/ TxReturn(1)

SpecClocks == Init /\ [][NextClocks]_vars

(* C6: every stored note has created_at <= updated_at. *)
CreatedNotAfterUpdated ==
    \A r \in notes : r.created_at <= r.updated_at

(* C7: Delete and Update of an id that has no note succeed and change      *)
(* nothing; Delete of an existing note removes that note and no other.     *)
AbsentIdIsNoError ==
    [][\A id \in Ids :
        /\ (Delete(id, TRUE) /\ id \notin NoteIds(notes)) =>
              (~resp'.err /\ notes' = notes /\ notes_log' = notes_log)
        /\ (Delete(id, TRUE) /\ id \in NoteIds(notes)) =>
              (~resp'.err /\ notes' = notes \ {RowOf(notes, id)}
                          /\ notes_log' = notes_log)
        /\ \A u \in RepoUpdates :
              (Update(id, u, TRUE) /\ id \notin NoteIds(notes)) =>
                  (~resp'.err /\ notes' = notes /\ notes_log' = notes_log)]_vars

(* A Delete of an id the sequence has not handed out yet has returned      *)
(* without error while a note is stored.                                   *)
AbsentIdIsNoErrorWitness ==
    /\ resp.op = "Delete"
    /\ ~resp.err
    /\ resp.id > seq
    /\ notes # {}

----------------------------------------------------------------------------
(* Workers calling CreateWithLogTx concurrently, and a reader. *)

NextTx ==
    \/ \E t \in Workers, ok \in BOOLEAN : TxBegin(t, ok)
    \/ \E t \in Workers, n \in RepoCreates, ok \in BOOLEAN :
          seq < MaxId /\ TxInsertNote(t, n, ok)
    \/ \E t \in Workers, ok \in BOOLEAN : TxInsertLog(t, ok)
    \/ \E t \in Workers, ok \in BOOLEAN : TxCommit(t, ok)
    \/ \E t \in Workers : TxReturn(t)
    \/ ReadBoth

SpecTx == Init /\ [][NextTx]_vars

(* C1: what is committed, and so what any reader sees, never holds a note  *)
(* without its "created" log row nor a log row without its note.           *)
NoteAndLogTogether ==
    /\ \A r \in notes :
          \E l \in notes_log : l.note_id = r.id /\ l.action = "created"
    /\ \A l \in notes_log : l.note_id \in NoteIds(notes)
    /\ resp.op = "Read" => resp.noteIds = resp.logIds

(* A reader has seen a committed pair while another call holds a note it   *)
(* has inserted but not committed.                                         *)
NoteAndLogTogetherWitness ==
    /\ resp.op = "Read"
    /\ resp.noteIds # {}
    /\ \E t \in Workers :
          /\ tx[t].pc = "noteInserted"
          /\ tx[t].noteID \notin NoteIds(notes)

(* C2: the step on which a CreateWithLogTx call fails changes neither      *)
(* table and keeps none of the call's writes, after it neither table holds *)
(* a row for the id the call had been given (GetByID of that id finds      *)
(* nothing), and the call returns an error.                                *)
FailedCallLeavesNothing ==
    [][\A t \in Workers :
        /\ (tx[t].pc # "failed" /\ tx'[t].pc = "failed") =>
              /\ notes' = notes
              /\ notes_log' = notes_log
              /\ ~\E r \in notes' : r.id = tx'[t].noteID
              /\ ~\E l \in notes_log' : l.note_id = tx'[t].noteID
              /\ tx'[t].note = {} /\ tx'[t].log = {}
        /\ (tx[t].pc = "failed" /\ tx'[t].pc = "idle") =>
              /\ resp'.op = "CreateWithLogTx" /\ resp'.err /\ resp'.id = 0
              /\ notes' = notes
              /\ notes_log' = notes_log
              /\ ~\E r \in notes' : r.id = tx[t].noteID]_vars

(* A call has failed after its note insert succeeded (it had been given an *)
(* id), while another call's note is committed.                            *)
FailedCallLeavesNothingWitness ==
    /\ \E t \in Workers :
          /\ tx[t].pc = "failed"
          /\ tx[t].noteID # 0
          /\ GetByID(tx[t].noteID) = NotFound
    /\ notes # {}

----------------------------------------------------------------------------
(* The list and batch reads over stores built by Create and Delete. *)

ListCreates == {[title |-> t, content |-> <<>>] : t \in {TextA, TextB}}

NextList ==
    \/ TickDb
    \/ \E n \in ListCreates, t \in 0..dbNow : seq < MaxListId /\ Create(n, t, TRUE)
    \/ \E id \in ListIds : Delete(id, TRUE)
    \/ \E limit \in Limits : ListFirstPageCall(limit)
    \/ \E limit \in Limits : ListAfterCursorCall(limit)
    \/ GetAllCall

SpecList == Init /\ [][NextList]_vars

Min(a, b) == IF a < b THEN a ELSE b

(* Note a ranks above note b: newer, or as new with the larger id. *)
RanksAbove(a, b) ==
    a.created_at > b.created_at \/ (a.created_at = b.created_at /\ a.id > b.id)

(* A sequence of notes in descending (created_at, id) order. *)
Descending(rows) ==
    \A i \in 1..(Len(rows) - 1) : RanksAbove(rows[i], rows[i + 1])

(* C3: the page ListFirstPage(N) followed by the page ListAfterCursor      *)
(* (cursor = last row of that page, limit M) is the sequence               *)
(* ListFirstPage(N + M) returns.                                           *)
CursorContinuity ==
    resp.op = "ListAfterCursor" =>
        resp.first \o resp.rows = ListFirstPage(resp.n + resp.limit)

(* Two notes share created_at, the first page ended on one of them, and    *)
(* the page after the cursor is not empty.                                 *)
CursorContinuityWitness ==
    /\ resp.op = "ListAfterCursor"
    /\ resp.rows # <<>>
    /\ resp.rows[1].created_at = resp.cursor.created_at
    /\ Cardinality(notes) = 3

(* C4: ListFirstPage(N) returns min(N, number of notes) stored notes, in   *)
(* descending (created_at, id) order, none of the notes left out ranking   *)
(* above one returned; it is the first min(N, number of notes) rows of     *)
(* GetAll, and GetAll returns every note once in that order.               *)
FirstPageIsTopN ==
    /\ resp.op = "ListFirstPage" =>
          /\ Len(resp.rows) = Min(resp.limit, Cardinality(notes))
          /\ Range(resp.rows) \subseteq notes
          /\ Descending(resp.rows)
          /\ \A r \in notes \ Range(resp.rows), i \in DOMAIN resp.rows :
                RanksAbove(resp.rows[i], r)
          /\ resp.rows = SubSeq(GetAll, 1, Min(resp.limit, Cardinality(notes)))
    /\ resp.op = "GetAll" =>
          /\ Len(resp.rows) = Cardinality(notes)
          /\ Range(resp.rows) = notes
          /\ Descending(resp.rows)

(* A first page of two rows out of three notes, where the note with the    *)
(* smaller id is the newer one and another pair shares created_at.         *)
FirstPageIsTopNWitness ==
    /\ resp.op = "ListFirstPage"
    /\ Len(resp.rows) = 2
    /\ Cardinality(notes) = 3
    /\ resp.rows[1].id < resp.rows[2].id
    /\ \E a, b \in notes : a # b /\ a.created_at = b.created_at

----------------------------------------------------------------------------
(* The batch read over stores built by Create and Delete. *)

IdLists == UNION {[1..k -> Ids] : k \in 0..MaxIdsLen}

NextBatch ==
    \/ \E n \in ListCreates : seq < MaxId /\ Create(n, dbNow, TRUE)
    \/ \E id \in Ids : Delete(id, TRUE)
    \/ \E ids \in IdLists, ok \in BOOLEAN : GetByIDs(ids, ok)

SpecBatch == Init /\ [][NextBatch]_vars

(* C9: GetByIDs(ids) returns one NoteShort (id, title) for each distinct   *)
(* id of ids that has a note and nothing else; for an empty list it        *)
(* returns the empty sequence, without error and without a storage call.   *)
BatchFetchExact ==
    resp.op = "GetByIDs" =>
        /\ Len(resp.ids) = 0 => (~resp.err /\ ~resp.queried /\ resp.rows = <<>>)
        /\ ~resp.err =>
              /\ \A r \in notes :
                    r.id \in Range(resp.ids) =>
                        Cardinality({i \in DOMAIN resp.rows :
                                        resp.rows[i] = [id |-> r.id, title |-> r.title]}) = 1
              /\ \A i \in DOMAIN resp.rows :
                    /\ resp.rows[i].id \in Range(resp.ids)
                    /\ \E r \in notes : r.id = resp.rows[i].id /\ r.title = resp.rows[i].title
              /\ Len(resp.rows) = Cardinality(Range(resp.ids) \cap NoteIds(notes))

(* A list that names one id twice and an id with no note has returned one  *)
(* row.                                                                    *)
BatchFetchExactWitness ==
    /\ resp.op = "GetByIDs"
    /\ ~resp.err
    /\ Len(resp.rows) = 1
    /\ Len(resp.ids) = 2
    /\ resp.ids[1] \notin NoteIds(notes)
    /\ resp.ids[2] \in NoteIds(notes)

----------------------------------------------------------------------------
(* Requests through the HTTP handlers. *)

HttpTitles == {<<>>, <<Space>>, <<Tab, Space>>, <<"a">>, <<Space, "b", Space>>}

HttpCreates == {[title |-> t, content |-> <<>>] : t \in HttpTitles}

HttpUpdates ==
    {[title |-> t, content |-> c] :
        t \in {Nil} \cup {Ptr(x) : x \in HttpTitles}, c \in {Nil, Ptr(<<"x">>)}}

NextHttp ==
    \/ \E req \in HttpCreates, fault \in {"none", "json", "db1", "db2"} :
          seq < MaxId /\ CreateNote(req, fault)
    \/ \E id \in Ids, u \in HttpUpdates, fault \in {"none", "id", "json", "db1", "db2"} :
          PatchNote(id, u, fault)
    \/ \E id \in Ids, fault \in {"none", "id", "db1"} : DeleteNote(id, fault)
    \/ TickApp

SpecHttp == Init /\ [][NextHttp]_vars

Blank(s) == \A i \in DOMAIN s : s[i] \in {Space, Tab}

(* C8: after any step of the handlers every stored title has a character   *)
(* that is not whitespace; a CreateNote or PatchNote whose request carries *)
(* a blank title is answered 400 and leaves the store as it was; a         *)
(* PatchNote whose request carries no title keeps each note's title.       *)
StoredTitlesNotBlank ==
    [][/\ \A r \in notes' : ~Blank(r.title)
       /\ (resp'.op \in {"CreateNote", "PatchNote"}
              /\ resp'.title.present /\ Blank(resp'.title.val)) =>
             (resp'.status = 400 /\ notes' = notes)
       /\ (resp'.op = "PatchNote" /\ ~resp'.title.present) =>
             \A r \in notes : \E q \in notes' : q.id = r.id /\ q.title = r.title]_vars

(* A request with a whitespace-only title has been answered 400 while a    *)
(* note whose title has whitespace around it is stored, patched by a       *)
(* request without title.                                                  *)
StoredTitlesNotBlankWitness ==
    /\ resp = Respond("PatchNote", 400, Ptr(<<Tab, Space>>))
    /\ \E r \in notes : r.title = <<Space, "b", Space>> /\ r.content = <<"x">>

----------------------------------------------------------------------------
(* The paging reader, with writers between its fetches. *)

WalkUpdates == {[title |-> Nil, content |-> Ptr(<<"x">>)]}

WalkCreates == {[title |-> TextA, content |-> <<"x">>]}

NextWalk ==
    \/ TickDb
    \/ \E n \in WalkCreates, t \in 0..dbNow : seq < MaxListId /\ Create(n, t, TRUE)
    \/ \E id \in ListIds, u \in WalkUpdates : Update(id, u, TRUE)
    \/ \E id \in ListIds : Delete(id, TRUE)
    \/ \E limit \in 1..MaxLimit : WalkStart(limit)
    \/ WalkNext

SpecWalk == Init /\ [][NextWalk]_vars

Count(ids, id) == Cardinality({i \in DOMAIN ids : ids[i] = id})

(* C10: the reader never receives a note id twice, and when its walk ends  *)
(* it has received once every note stored from before its first fetch to   *)
(* its last.                                                               *)
WalkSeesEachOnce ==
    walk.pc # "idle" =>
        /\ \A id \in ListIds : Count(walk.seen, id) <= 1
        /\ walk.pc = "done" => \A id \in walk.alive : Count(walk.seen, id) = 1

(* A walk of one-row pages has ended after a note stored at its start was  *)
(* deleted and another was created during it.                              *)
WalkSeesEachOnceWitness ==
    /\ walk.pc = "done"
    /\ walk.limit = 1
    /\ Len(walk.seen) >= 2
    /\ walk.alive # walk.initial
    /\ \E i \in DOMAIN walk.seen : walk.seen[i] \notin walk.initial

====
